---- MODULE Spec2Model ----
(***************************************************************************)
(* Model of us_economics.py: the FRED fetch loop, calculate_quant_metrics, *)
(* generate_smart_report and the radar percentile ranks, with the pandas   *)
(* operations the code calls written out over exact numbers.               *)
(***************************************************************************)
EXTENDS Integers, Sequences, FiniteSets, TLC

VARIABLES
    pc,              \* position of the script (section 5 of the source)
    api_key,         \* API_KEY: whether st.secrets holds a key
    fred,            \* the FRED service: code -> response to get_series
    z_score_window,  \* the sidebar slider z_score_window
    selected_cat,    \* the selectbox selected_cat (its first option until read)
    raw_df,          \* raw_df: the aligned panel fetch_and_process_data returns
    warnings,        \* st.warning diagnostics, in order
    quant_df,        \* quant_df: the metric panel
    smart_report,    \* smart_report: the segments of the report text, in order
    radar_data       \* radar_data: label -> (current_rank, last_year_rank)

vars == <<pc, api_key, fred, z_score_window, selected_cat, raw_df, warnings,
          quant_df, smart_report, radar_data>>

(***************************************************************************)
(* Numbers.  A float is modelled exactly: NaN, +/-inf, or a rational n/d   *)
(* in lowest terms with d > 0.  k = "root" is sign(n) * sqrt(|n| / d), the *)
(* only irrational the code produces (a rolling standard deviation and a   *)
(* quotient by it).                                                        *)
(***************************************************************************)
NaN == [k |-> "nan", n |-> 0, d |-> 1]
PInf == [k |-> "inf", n |-> 1, d |-> 1]
NInf == [k |-> "inf", n |-> -1, d |-> 1]

AbsI(x) == IF x < 0 THEN -x ELSE x
SgnI(x) == IF x < 0 THEN -1 ELSE IF x > 0 THEN 1 ELSE 0

RECURSIVE GCD(_, _)
GCD(a, b) == IF b = 0 THEN a ELSE GCD(b, a % b)

Fin(n, d) ==
    LET g == GCD(AbsI(n), AbsI(d))
        s == IF d < 0 THEN -1 ELSE 1
    IN [k |-> "fin", n |-> (s * n) \div g, d |-> (s * d) \div g]

Num(i) == [k |-> "fin", n |-> i, d |-> 1]
Infinity(s) == IF s < 0 THEN NInf ELSE PInf

IsNaN(a) == a.k = "nan"
IsFin(a) == a.k = "fin"

Neg(a) == IF a.k = "nan" THEN NaN ELSE [a EXCEPT !.n = -a.n]

Add(a, b) ==
    IF a.k = "nan" \/ b.k = "nan" THEN NaN
    ELSE IF a.k = "inf" /\ b.k = "inf" THEN (IF a.n = b.n THEN a ELSE NaN)
    ELSE IF a.k = "inf" THEN a
    ELSE IF b.k = "inf" THEN b
    ELSE Fin(a.n * b.d + b.n * a.d, a.d * b.d)

Sub(a, b) == Add(a, Neg(b))

\* the product of two rationals, cancelled crosswise before multiplying
Mul(a, b) ==
    IF a.k = "nan" \/ b.k = "nan" THEN NaN
    ELSE IF a.k = "inf" \/ b.k = "inf"
         THEN (IF a.n = 0 \/ b.n = 0 THEN NaN ELSE Infinity(SgnI(a.n) * SgnI(b.n)))
    ELSE IF a.n = 0 \/ b.n = 0 THEN Num(0)
    ELSE LET g1 == GCD(AbsI(a.n), b.d)
             g2 == GCD(AbsI(b.n), a.d)
         IN [k |-> "fin", n |-> (a.n \div g1) * (b.n \div g2),
                          d |-> (a.d \div g2) * (b.d \div g1)]

\* IEEE division: x / 0 is +/-inf for x # 0 and NaN for x = 0, never an exception
Div(a, b) ==
    IF a.k = "nan" \/ b.k = "nan" THEN NaN
    ELSE IF a.k = "inf" THEN (IF b.k = "inf" THEN NaN
                              ELSE Infinity(a.n * (IF b.n < 0 THEN -1 ELSE 1)))
    ELSE IF b.k = "inf" THEN Num(0)
    ELSE IF b.n = 0 THEN (IF a.n = 0 THEN NaN ELSE Infinity(a.n))
    ELSE Mul(a, Fin(b.d, b.n))

AbsN(a) == IF a.k = "nan" THEN NaN ELSE [a EXCEPT !.n = AbsI(a.n)]

\* comparisons: every comparison with NaN is false
Lt(a, b) ==
    IF a.k = "nan" \/ b.k = "nan" THEN FALSE
    ELSE IF a.k = "inf" THEN a.n < 0 /\ ~(b.k = "inf" /\ b.n < 0)
    ELSE IF b.k = "inf" THEN b.n > 0
    ELSE a.n * b.d < b.n * a.d
Gt(a, b) == Lt(b, a)
EqN(a, b) == a.k # "nan" /\ b.k # "nan" /\ a = b
Le(a, b) == Lt(a, b) \/ EqN(a, b)
Ge(a, b) == Le(b, a)

\* sqrt of a rational >= 0
Sqrt(a) ==
    IF a.k # "fin" \/ a.n < 0 THEN NaN
    ELSE IF a.n = 0 THEN Num(0)
    ELSE [k |-> "root", n |-> a.n, d |-> a.d]

\* a / sd for a rational a and a standard deviation sd (0, a root, or NaN)
DivByStd(a, sd) ==
    IF a.k = "nan" \/ sd.k = "nan" THEN NaN
    ELSE IF sd.k = "fin" THEN Div(a, sd)
    ELSE IF a.k = "inf" THEN a
    ELSE IF a.n = 0 THEN Num(0)
    ELSE LET q == Div(Mul(a, a), [k |-> "fin", n |-> sd.n, d |-> sd.d])
         IN [k |-> "root", n |-> SgnI(a.n) * q.n, d |-> q.d]

(***************************************************************************)
(* pandas.  A Series is a sequence of numbers over the rows of its frame;  *)
(* every operation is positional, as in the code.                          *)
(***************************************************************************)
Range(f) == {f[i] : i \in DOMAIN f}
MaxOf(S) == CHOOSE x \in S : \A y \in S : y <= x

RECURSIVE SortSet(_)
SortSet(S) ==
    IF S = {} THEN <<>>
    ELSE LET m == CHOOSE x \in S : \A y \in S : x <= y
         IN <<m>> \o SortSet(S \ {m})

\* Series.ffill(): the last value seen so far; leading gaps stay NaN
RECURSIVE ffill_from(_, _, _)
ffill_from(s, t, last) ==
    IF t > Len(s) THEN <<>>
    ELSE LET cur == IF s[t].k = "nan" THEN last ELSE s[t]
         IN <<cur>> \o ffill_from(s, t + 1, cur)
ffill(s) == ffill_from(s, 1, NaN)

\* Series.shift(periods), at row t
shifted(s, periods, t) == IF t > periods THEN s[t - periods] ELSE NaN

\* Series.diff(periods)
diff(s, periods) == [t \in 1..Len(s) |-> Sub(s[t], shifted(s, periods, t))]

\* Series.pct_change(periods): with no fill_method given, pandas (below 3.0,
\* the versions that accept resample('M')) pads the gaps first, then
\* divides by the shifted series and subtracts 1
pct_change(s, periods) ==
    LET data == ffill(s)
    IN [t \in 1..Len(s) |-> Sub(Div(data[t], shifted(data, periods, t)), Num(1))]

\* series * 100
times100(s) == [t \in 1..Len(s) |-> Mul(s[t], Num(100))]

\* Series.dropna()
RECURSIVE dropna(_)
dropna(s) ==
    IF s = <<>> THEN <<>>
    ELSE IF s[1].k = "nan" THEN dropna(Tail(s))
    ELSE <<s[1]>> \o dropna(Tail(s))

RECURSIVE SumFrom(_, _, _)
SumFrom(s, lo, hi) == IF lo > hi THEN Num(0) ELSE Add(s[lo], SumFrom(s, lo + 1, hi))

\* a rolling window has a result once it holds `window` observations
\* (min_periods = window); rolling turns inf into NaN before it counts
WindowFull(s, t, window) ==
    t >= window /\ \A j \in (t - window + 1)..t : s[j].k = "fin"

\* Series.rolling(window).mean()
rolling_mean(s, window) ==
    [t \in 1..Len(s) |->
        IF WindowFull(s, t, window)
        THEN Div(SumFrom(s, t - window + 1, t), Num(window))
        ELSE NaN]

RECURSIVE SumSqFrom(_, _, _)
SumSqFrom(s, lo, hi) ==
    IF lo > hi THEN Num(0) ELSE Add(Mul(s[lo], s[lo]), SumSqFrom(s, lo + 1, hi))

\* the sample variance (ddof = 1) of the window ending at t
WindowVar(s, t, window) ==
    LET S == SumFrom(s, t - window + 1, t)
        Q == SumSqFrom(s, t - window + 1, t)
    IN Div(Sub(Mul(Num(window), Q), Mul(S, S)), Num(window * (window - 1)))

\* Series.rolling(window).std()
rolling_std(s, window) ==
    [t \in 1..Len(s) |->
        IF WindowFull(s, t, window) THEN Sqrt(WindowVar(s, t, window)) ELSE NaN]

\* A frame has its rows' months in `index`, its column names in `columns`
\* and each column's values, row by row, in `data`.  While the fetch loop
\* builds it, a column is kept by month (month -> value) over the set `rows`.
\* pd.DataFrame(): no rows, no columns
EmptyFrame == [index |-> <<>>, columns |-> <<>>, data |-> <<>>]
EmptyJoin == [rows |-> {}, columns |-> <<>>, data |-> <<>>]

\* DataFrame.empty
IsEmpty(df) == df.index = <<>> \/ df.columns = <<>>

\* series.resample('M').last(): one row per calendar month from the first
\* observation's month to the last one's, holding the month's last valid
\* observation, NaN for a month without one
resample_last(obs) ==
    IF obs = <<>> THEN <<>>
    ELSE [month \in (obs[1].m)..(obs[Len(obs)].m) |->
            LET J == {j \in 1..Len(obs) : obs[j].m = month /\ obs[j].v.k # "nan"}
            IN IF J = {} THEN NaN ELSE obs[MaxOf(J)].v]

\* pd.concat([all_data, series], axis=1): the outer join on the month axis
concat(df, name, series) ==
    LET rows == df.rows \cup DOMAIN series
    IN [rows |-> rows,
        columns |-> Append(df.columns, name),
        data |-> [c \in Range(df.columns) \cup {name} |->
                    [month \in rows |->
                        IF c = name
                        THEN (IF month \in DOMAIN series THEN series[month] ELSE NaN)
                        ELSE (IF month \in df.rows THEN df.data[c][month] ELSE NaN)]]]

\* all_data.sort_index(): the rows in month order
sort_index(df) ==
    LET index == SortSet(df.rows)
    IN [index |-> index,
        columns |-> df.columns,
        data |-> [c \in Range(df.columns) |->
                    [i \in 1..Len(index) |-> df.data[c][index[i]]]]]

(***************************************************************************)
(* The registry (section 2 of the source).  Names are the English part of  *)
(* the display names; the dicts keep their insertion order.                *)
(***************************************************************************)
INDICATORS ==
    << [category |-> "Employment",
        items |-> << [name |-> "Non-Farm Payrolls", code |-> "PAYEMS"],
                     [name |-> "Unemployment Rate", code |-> "UNRATE"],
                     [name |-> "Initial Claims", code |-> "ICSA"] >>],
       [category |-> "Consumption",
        items |-> << [name |-> "Retail Sales", code |-> "RSAFS"],
                     [name |-> "PCE", code |-> "PCE"],
                     [name |-> "UMich Sentiment", code |-> "UMCSENT"] >>],
       [category |-> "Growth",
        items |-> << [name |-> "Real GDP", code |-> "GDPC1"],
                     [name |-> "Industrial Production", code |-> "INDPRO"],
                     [name |-> "Durable Goods", code |-> "DGORDER"] >>],
       [category |-> "Inflation",
        items |-> << [name |-> "CPI (All Urban)", code |-> "CPIAUCSL"],
                     [name |-> "Core PCE", code |-> "PCEPILFE"],
                     [name |-> "PPI", code |-> "PPIFIS"] >>] >>

Categories == {INDICATORS[i].category : i \in DOMAIN INDICATORS}

\* INDICATORS[category]
ItemsOf(category) ==
    INDICATORS[CHOOSE i \in DOMAIN INDICATORS : INDICATORS[i].category = category].items

INVERSE_CODES == {"UNRATE", "ICSA"}

\* flat_indicators: every (name, code), category by category
RECURSIVE Flatten(_)
Flatten(cats) == IF cats = <<>> THEN <<>> ELSE cats[1].items \o Flatten(Tail(cats))
flat_indicators == Flatten(INDICATORS)

Names == {flat_indicators[i].name : i \in DOMAIN flat_indicators}
Codes == {flat_indicators[i].code : i \in DOMAIN flat_indicators}

\* NAME_TO_CODE.get(name)
NAME_TO_CODE(name) ==
    flat_indicators[CHOOSE i \in DOMAIN flat_indicators : flat_indicators[i].name = name].code

(***************************************************************************)
(* fetch_and_process_data.  fred[code] is what get_series does for the     *)
(* code: ok = FALSE is an exception, else obs are the observations, each   *)
(* a month m and a value v, in date order.                                 *)
(***************************************************************************)
\* fetch_one with an except branch that loses the panel built so far
fetch_one_dropping(acc, item, response) ==
    IF response.ok
    THEN [all_data |-> concat(acc.all_data, item.name, resample_last(response.obs)),
          warnings |-> acc.warnings]
    ELSE [all_data |-> EmptyJoin,
          warnings |-> Append(acc.warnings, item.name)]

\* one pass of the loop body: the try block, or its except branch
fetch_one(acc, item, response) ==
    IF response.ok
    THEN [all_data |-> concat(acc.all_data, item.name, resample_last(response.obs)),
          warnings |-> acc.warnings]
    ELSE [all_data |-> acc.all_data,
          warnings |-> Append(acc.warnings, item.name)]

RECURSIVE fetch_loop(_, _, _)
fetch_loop(service, i, acc) ==
    IF i > Len(flat_indicators)
    THEN [all_data |-> sort_index(acc.all_data), warnings |-> acc.warnings]
    ELSE fetch_loop(service, i + 1,
                    fetch_one(acc, flat_indicators[i], service[flat_indicators[i].code]))

\* the frame returned, and the warnings shown on the way
fetch_and_process_data(service) ==
    fetch_loop(service, 1, [all_data |-> EmptyJoin, warnings |-> <<>>])

(***************************************************************************)
(* calculate_quant_metrics                                                 *)
(***************************************************************************)
LevelCodes == {"UNRATE", "ICSA", "UMCSENT"}

\* 1. the Market view of a column
market_view(code, s) ==
    IF code = "PAYEMS" THEN diff(s, 1)
    ELSE IF code \in LevelCodes THEN s
    ELSE times100(pct_change(s, 12))

\* the Raw view, from the forward-filled column
raw_view(code, series_filled) ==
    IF code \in LevelCodes THEN series_filled
    ELSE times100(pct_change(series_filled, 12))

\* yoy before the polarity is applied
yoy_of(code, series_filled) ==
    IF code \in LevelCodes THEN diff(series_filled, 12)
    ELSE times100(pct_change(series_filled, 12))

\* momentum_view without the polarity step
momentum_view_unsigned(code, series_filled) == yoy_of(code, series_filled)

\* 2. the Momentum view: yoy, negated for the codes of INVERSE_CODES
momentum_view(code, series_filled) ==
    LET yoy == yoy_of(code, series_filled)
    IN IF code \in INVERSE_CODES
       THEN [t \in 1..Len(yoy) |-> Neg(yoy[t])]
       ELSE yoy

\* z_view with the fallback taken whenever the last rolling std is not
\* positive, an undefined one included
z_view_nan_as_zero(yoy, z_window) ==
    LET rolling_mean_ == rolling_mean(yoy, z_window)
        rolling_std_ == rolling_std(yoy, z_window)
    IN IF rolling_std_[Len(yoy)].k \in {"nan", "fin"}
       THEN [t \in 1..Len(yoy) |-> Num(0)]
       ELSE [t \in 1..Len(yoy) |->
                DivByStd(Sub(yoy[t], rolling_mean_[t]), rolling_std_[t])]

\* z_view with the fallback applied point by point: 0 only where the window
\* ending at that point has standard deviation 0
z_view_pointwise(yoy, z_window) ==
    LET rolling_mean_ == rolling_mean(yoy, z_window)
        rolling_std_ == rolling_std(yoy, z_window)
    IN [t \in 1..Len(yoy) |->
           IF EqN(rolling_std_[t], Num(0)) THEN Num(0)
           ELSE DivByStd(Sub(yoy[t], rolling_mean_[t]), rolling_std_[t])]

\* 3. the Z view: constant 0 when the last rolling std is 0
z_view(yoy, z_window) ==
    LET rolling_mean_ == rolling_mean(yoy, z_window)
        rolling_std_ == rolling_std(yoy, z_window)
    IN IF EqN(rolling_std_[Len(yoy)], Num(0))
       THEN [t \in 1..Len(yoy) |-> Num(0)]
       ELSE [t \in 1..Len(yoy) |->
                DivByStd(Sub(yoy[t], rolling_mean_[t]), rolling_std_[t])]

Views == <<"Market", "Raw", "Momentum", "Z">>

\* the four columns the loop body writes for one column of df
quant_columns(code, s, z_window) ==
    LET series_filled == ffill(s)
        yoy == momentum_view(code, series_filled)
    IN [Market |-> market_view(code, s),
        Raw |-> raw_view(code, series_filled),
        Momentum |-> yoy,
        Z |-> z_view(yoy, z_window)]

RECURSIVE ColumnKeys(_)
ColumnKeys(cols) ==
    IF cols = <<>> THEN <<>>
    ELSE [v \in 1..Len(Views) |-> <<cols[1], Views[v]>>] \o ColumnKeys(Tail(cols))

\* metrics_df: a column <<name, view>> stands for f"{name}_{view}"
calculate_quant_metrics(df, z_window) ==
    LET per == [c \in Range(df.columns) |->
                   quant_columns(NAME_TO_CODE(c), df.data[c], z_window)]
    IN [index |-> df.index,
        columns |-> ColumnKeys(df.columns),
        data |-> [key \in Range(df.columns) \X Range(Views) |-> per[key[1]][key[2]]]]

HasColumn(df, key) == \E i \in 1..Len(df.columns) : df.columns[i] = key

(***************************************************************************)
(* generate_smart_report.  The report text is modelled as the sequence of  *)
(* its segments: the header, the section title of the category's branch,   *)
(* one segment per sentence, and the footer.  A sentence is about one      *)
(* indicator (its code), carries the label of the branch that wrote it     *)
(* ("none" when no branch adds text), the numbers it shows (before they    *)
(* are formatted) and the trend word it shows.                             *)
(***************************************************************************)
Seg(about, label, shown, trend) ==
    [about |-> about, label |-> label, shown |-> shown, trend |-> trend]

\* latest_vals: code -> (latest valid Market value, the one before it or 0)
latest_vals_of(category, df) ==
    LET items == ItemsOf(category)
        Valid(i) == dropna(df.data[<<items[i].name, "Market">>])
        Have == {i \in 1..Len(items) :
                    /\ HasColumn(df, <<items[i].name, "Market">>)
                    /\ Valid(i) # <<>>}
    IN [code \in {items[i].code : i \in Have} |->
            LET i == CHOOSE j \in Have : items[j].code = code
                valid == Valid(i)
            IN <<valid[Len(valid)],
                 IF Len(valid) > 1 THEN valid[Len(valid) - 1] ELSE Num(0)>>]

\* latest_vals.get(code, (0,0))
Get(latest_vals, code) ==
    IF code \in DOMAIN latest_vals THEN latest_vals[code] ELSE <<Num(0), Num(0)>>

get_trend_str(now, prev) ==
    LET diff_ == Sub(now, prev)
    IN IF Gt(diff_, Num(0)) THEN "rising" ELSE "falling"

\* nfp_label with 250 counted as strong
nfp_label_inclusive(nfp_now) ==
    IF Ge(nfp_now, Num(250)) THEN "strong"
    ELSE IF Le(Num(150), nfp_now) /\ Le(nfp_now, Num(250)) THEN "moderate"
    ELSE IF Le(Num(50), nfp_now) /\ Lt(nfp_now, Num(150)) THEN "slowing"
    ELSE "warning"

nfp_label(nfp_now) ==
    IF Gt(nfp_now, Num(250)) THEN "strong"
    ELSE IF Le(Num(150), nfp_now) /\ Le(nfp_now, Num(250)) THEN "moderate"
    ELSE IF Le(Num(50), nfp_now) /\ Lt(nfp_now, Num(150)) THEN "slowing"
    ELSE "warning"

\* unrate_label with 4.5 itself not yet a warning
unrate_label_late(unrate_now) ==
    IF Gt(unrate_now, Fin(45, 10)) THEN "warning"
    ELSE IF Gt(unrate_now, Num(4)) THEN "threshold-breached"
    ELSE "full-employment"

unrate_label(unrate_now) ==
    IF Ge(unrate_now, Fin(45, 10)) THEN "warning"
    ELSE IF Gt(unrate_now, Num(4)) THEN "threshold-breached"
    ELSE "full-employment"

claims_label(claims_now) ==
    IF Lt(claims_now, Num(220000)) THEN "low"
    ELSE IF Gt(claims_now, Num(300000)) THEN "warning"
    ELSE "normal"

employment_report(latest_vals) ==
    LET nfp == Get(latest_vals, "PAYEMS")
        unrate == Get(latest_vals, "UNRATE")
        claims == Get(latest_vals, "ICSA")
    IN << Seg("section", "Employment", <<>>, "none"),
          Seg("PAYEMS", nfp_label(nfp[1]), <<nfp[1], nfp[2]>>, "none"),
          Seg("UNRATE", unrate_label(unrate[1]),
              <<unrate[1], AbsN(Sub(unrate[1], unrate[2]))>>,
              get_trend_str(unrate[1], unrate[2])) >>
       \o (IF Gt(claims[1], Num(0))
           THEN << Seg("ICSA", claims_label(claims[1]), <<claims[1]>>, "none") >>
           ELSE <<>>)

\* cpi_label with the middle band closed at 2.5
cpi_label_inclusive(cpi_now) ==
    IF Gt(cpi_now, Fin(35, 10)) THEN "high"
    ELSE IF Le(Fin(25, 10), cpi_now) /\ Le(cpi_now, Fin(35, 10)) THEN "disinflation-tail"
    ELSE IF Le(cpi_now, Fin(25, 10)) THEN "target-reached"
    ELSE "none"

cpi_label(cpi_now) ==
    IF Gt(cpi_now, Fin(35, 10)) THEN "high"
    ELSE IF Lt(Fin(25, 10), cpi_now) /\ Le(cpi_now, Fin(35, 10)) THEN "disinflation-tail"
    ELSE IF Le(cpi_now, Fin(25, 10)) THEN "target-reached"
    ELSE "none"

inflation_report(latest_vals) ==
    LET cpi == Get(latest_vals, "CPIAUCSL")
        pce == Get(latest_vals, "PCEPILFE")
        ppi == Get(latest_vals, "PPIFIS")
        spread == Sub(pce[1], Num(2))
    IN << Seg("section", "Inflation", <<>>, "none"),
          Seg("CPIAUCSL", cpi_label(cpi[1]), <<cpi[1], cpi[2]>>,
              get_trend_str(cpi[1], cpi[2])),
          IF Gt(spread, Num(1))
          THEN Seg("PCEPILFE", "gap-remains", <<pce[1], spread>>, "none")
          ELSE Seg("PCEPILFE", "sufficient", <<pce[1]>>, "none"),
          IF Gt(ppi[1], cpi[1])
          THEN Seg("PPIFIS", "margin-compression", <<ppi[1]>>, "none")
          ELSE Seg("PPIFIS", "relief", <<ppi[1]>>, "none") >>

retail_label(retail_now) ==
    IF Gt(retail_now, Num(5)) THEN "strong"
    ELSE IF Le(Num(2), retail_now) /\ Le(retail_now, Num(5)) THEN "moderate"
    ELSE IF Le(Num(0), retail_now) /\ Lt(retail_now, Num(2)) THEN "weak"
    ELSE "contraction"

sent_label(sent_now) ==
    IF Gt(sent_now, Num(80)) THEN "optimistic"
    ELSE IF Lt(sent_now, Num(60)) THEN "pessimistic"
    ELSE "none"

\* the retail sentence is written from latest_vals.get('RSXFS'), a key the
\* loop over INDICATORS never stores (Retail Sales is registered as RSAFS)
consumption_report(latest_vals) ==
    LET retail == Get(latest_vals, "RSXFS")
        sent == Get(latest_vals, "UMCSENT")
    IN << Seg("section", "Consumption", <<>>, "none"),
          Seg("RSAFS", retail_label(retail[1]), <<retail[1]>>,
              get_trend_str(retail[1], retail[2])),
          Seg("UMCSENT", sent_label(sent[1]), <<sent[1]>>, "none") >>

gdp_label(gdp_now) ==
    IF Gt(gdp_now, Fin(25, 10)) THEN "above-potential"
    ELSE IF Le(Num(1), gdp_now) /\ Le(gdp_now, Fin(25, 10)) THEN "trend"
    ELSE IF Lt(Num(0), gdp_now) /\ Lt(gdp_now, Num(1)) THEN "stall-speed"
    ELSE "contraction"

ind_label(ind_now) == IF Lt(ind_now, Num(0)) THEN "contraction" ELSE "expansion"

growth_report(latest_vals) ==
    LET gdp == Get(latest_vals, "GDPC1")
        ind == Get(latest_vals, "INDPRO")
    IN << Seg("section", "Growth", <<>>, "none"),
          Seg("GDPC1", gdp_label(gdp[1]), <<gdp[1]>>, "none"),
          Seg("INDPRO", ind_label(ind[1]), <<ind[1]>>, "none") >>

generate_smart_report(category, df) ==
    LET latest_vals == latest_vals_of(category, df)
    IN << Seg("header", category, <<>>, "none") >>
       \o (IF category = "Employment" THEN employment_report(latest_vals)
           ELSE IF category = "Inflation" THEN inflation_report(latest_vals)
           ELSE IF category = "Consumption" THEN consumption_report(latest_vals)
           ELSE IF category = "Growth" THEN growth_report(latest_vals)
           ELSE <<>>)
       \o << Seg("footer", "summary", <<>>, "none") >>

(***************************************************************************)
(* The radar tab: percentile ranks of the Raw view                         *)
(***************************************************************************)
radar_indicators ==
    << [label |-> "Employment (NFP)", col_name |-> "Non-Farm Payrolls"],
       [label |-> "Consumption (Retail)", col_name |-> "Retail Sales"],
       [label |-> "Growth (Industrial)", col_name |-> "Industrial Production"],
       [label |-> "Inflation (CPI)", col_name |-> "CPI (All Urban)"],
       [label |-> "Sentiment (UMich)", col_name |-> "UMich Sentiment"] >>

\* (series < val).mean() * 100
percentile_rank(series, val) ==
    Fin(100 * Cardinality({j \in 1..Len(series) : Lt(series[j], val)}), Len(series))

radar_pair(series) ==
    <<percentile_rank(series, series[Len(series)]),
      IF Len(series) > 12
      THEN percentile_rank(series, series[Len(series) - 12])
      ELSE Num(50)>>

radar_data_of(df) ==
    LET Series(i) == dropna(df.data[<<radar_indicators[i].col_name, "Raw">>])
        Have == {i \in 1..Len(radar_indicators) :
                    /\ HasColumn(df, <<radar_indicators[i].col_name, "Raw">>)
                    /\ Series(i) # <<>>}
    IN [label \in {radar_indicators[i].label : i \in Have} |->
            radar_pair(Series(CHOOSE i \in Have : radar_indicators[i].label = label))]

(***************************************************************************)
(* The script (section 5 of the source), one action per step               *)
(***************************************************************************)
\* `if API_KEY:` fails: st.error, nothing is fetched
ApiKeyMissing ==
    /\ pc = "start"
    /\ ~api_key
    /\ pc' = "no_key"
    /\ UNCHANGED <<api_key, fred, z_score_window, selected_cat, raw_df, warnings,
                   quant_df, smart_report, radar_data>>

\* raw_df = fetch_and_process_data(API_KEY, INDICATORS, lookback_years)
FetchAndProcess ==
    /\ pc = "start"
    /\ api_key
    /\ LET got == fetch_and_process_data(fred)
       IN /\ raw_df' = got.all_data
          /\ warnings' = got.warnings
    /\ pc' = "fetched"
    /\ UNCHANGED <<api_key, fred, z_score_window, selected_cat, quant_df,
                   smart_report, radar_data>>

\* raw_df is empty: st.error, nothing is computed
DataFailed ==
    /\ pc = "fetched"
    /\ IsEmpty(raw_df)
    /\ pc' = "failed"
    /\ UNCHANGED <<api_key, fred, z_score_window, selected_cat, raw_df, warnings,
                   quant_df, smart_report, radar_data>>

\* quant_df = calculate_quant_metrics(raw_df, z_score_window)
CalculateQuantMetrics ==
    /\ pc = "fetched"
    /\ ~IsEmpty(raw_df)
    /\ quant_df' = calculate_quant_metrics(raw_df, z_score_window)
    /\ pc' = "calculated"
    /\ UNCHANGED <<api_key, fred, z_score_window, selected_cat, raw_df, warnings,
                   smart_report, radar_data>>

\* selected_cat = st.selectbox(...): the category shown, read after quant_df
SelectCategory ==
    /\ pc = "calculated"
    /\ selected_cat' \in Categories
    /\ pc' = "selected"
    /\ UNCHANGED <<api_key, fred, z_score_window, raw_df, warnings, quant_df,
                   smart_report, radar_data>>

\* the trend chart of a category other than Employment reads every member's
\* Market column unguarded: a member that was not fetched is a KeyError
ChartKeyError ==
    selected_cat # "Employment"
    /\ \E i \in 1..Len(ItemsOf(selected_cat)) :
          ~HasColumn(quant_df, <<ItemsOf(selected_cat)[i].name, "Market">>)

TrendChartFails ==
    /\ pc = "selected"
    /\ ChartKeyError
    /\ pc' = "crashed"
    /\ UNCHANGED <<api_key, fred, z_score_window, selected_cat, raw_df, warnings,
                   quant_df, smart_report, radar_data>>

\* smart_report = generate_smart_report(selected_cat, quant_df)
GenerateSmartReport ==
    /\ pc = "selected"
    /\ ~ChartKeyError
    /\ smart_report' = generate_smart_report(selected_cat, quant_df)
    /\ pc' = "reported"
    /\ UNCHANGED <<api_key, fred, z_score_window, selected_cat, raw_df, warnings,
                   quant_df, radar_data>>

\* the radar tab fills radar_data
RadarData ==
    /\ pc = "reported"
    /\ radar_data' = radar_data_of(quant_df)
    /\ pc' = "done"
    /\ UNCHANGED <<api_key, fred, z_score_window, selected_cat, raw_df, warnings,
                   quant_df, smart_report>>

Next ==
    \/ ApiKeyMissing
    \/ FetchAndProcess
    \/ DataFailed
    \/ CalculateQuantMetrics
    \/ SelectCategory
    \/ TrendChartFails
    \/ GenerateSmartReport
    \/ RadarData

(***************************************************************************)
(* What FRED answers.  Bounds of the model.                                *)
(***************************************************************************)
MaxFailures == 3
MaxMonths == 25
MaxWindow == 13
MinWindow == 12
DefaultWindow == 60

Failure == [ok |-> FALSE, obs |-> <<>>]
Ok(obs) == [ok |-> TRUE, obs |-> obs]

\* one observation a month from month `start` on
Monthly(start, vals) == [i \in 1..Len(vals) |-> [m |-> start + i - 1, v |-> vals[i]]]

\* twelve months at 100, then one month at 100 + v for each v of vs: the
\* year-over-year percent of the months after the twelfth is v
YoYSeries(vs) ==
    Monthly(1, [i \in 1..(12 + Len(vs)) |->
                   IF i <= 12 THEN Num(100) ELSE Add(Num(100), vs[i - 12])])

StartState ==
    /\ pc = "start"
    /\ raw_df = EmptyFrame
    /\ warnings = <<>>
    /\ quant_df = EmptyFrame
    /\ smart_report = <<>>
    /\ radar_data = <<>>

\* Spec: every indicator has one fixed history; any MaxFailures of the
\* retrievals fail, or all of them do.
Baseline(code) ==
    CASE code = "PAYEMS" -> Monthly(1, <<Num(1000), Num(1200), Num(1300)>>)
      [] code = "UNRATE" -> Monthly(2, <<Fin(42, 10), Fin(43, 10)>>)
      [] code = "ICSA" -> << [m |-> 2, v |-> Num(240000)], [m |-> 3, v |-> Num(230000)],
                             [m |-> 3, v |-> Num(225000)], [m |-> 3, v |-> Num(215000)] >>
      [] code = "RSAFS" -> YoYSeries(<<Num(3), Fin(-12, 10)>>)
      [] code = "PCE" -> Monthly(1, <<Num(100), Num(101), Num(102)>>)
      [] code = "UMCSENT" -> Monthly(1, <<Num(70), Num(55)>>)
      [] code = "GDPC1" -> << [m |-> 1, v |-> Num(100)], [m |-> 4, v |-> Num(100)],
                              [m |-> 7, v |-> Num(101)], [m |-> 10, v |-> Num(101)],
                              [m |-> 13, v |-> Num(102)] >>
      [] code = "INDPRO" -> YoYSeries(<<Num(1), Fin(-5, 10)>>)
      [] code = "DGORDER" -> Monthly(13, <<Num(100), Num(101)>>)
      [] code = "CPIAUCSL" -> YoYSeries(<<Fin(36, 10), Num(3)>>)
      [] code = "PCEPILFE" -> YoYSeries(<<Fin(28, 10), Fin(31, 10)>>)
      [] code = "PPIFIS" -> YoYSeries(<<Num(4)>>)

FailureSets == {F \in SUBSET Codes : Cardinality(F) <= MaxFailures \/ F = Codes}

Init ==
    /\ StartState
    /\ \E F \in FailureSets :
          /\ fred = [c \in Codes |-> IF c \in F THEN Failure ELSE Ok(Baseline(c))]
          /\ api_key \in (IF F = Codes THEN BOOLEAN ELSE {TRUE})
    /\ selected_cat = "Employment"
    /\ z_score_window = DefaultWindow

Spec == Init /\ [][Next]_vars

(***************************************************************************)
(* SpecReport: one category's members answer with histories whose latest   *)
(* Market values sit on and around the thresholds of the report, or fail;  *)
(* the other categories' retrievals fail.                                  *)
(***************************************************************************)
ReportHistories(code) ==
    CASE code = "PAYEMS" ->
            {Monthly(1, <<Num(1000), Num(1200), Add(Num(1200), d)>>) :
                d \in {Num(300), Fin(25001, 100), Num(250), Num(150), Fin(14999, 100),
                       Num(50), Fin(4999, 100), Num(-20)}}
            \cup {Monthly(1, <<Num(1000)>>), Monthly(1, <<Num(1000), Num(1200)>>),
                  Monthly(1, <<Num(1200), Num(1000)>>)}
      [] code = "UNRATE" ->
            {Monthly(1, pu) :
                pu \in {<<Fin(42, 10), Fin(43, 10)>>, <<Fin(44, 10), Fin(45, 10)>>,
                        <<Fin(46, 10), Fin(45, 10)>>, <<Num(4), Num(4)>>,
                        <<Fin(39, 10), Fin(401, 100)>>, <<Fin(41, 10), Num(4)>>,
                        <<Fin(43, 10)>>}}
      [] code = "ICSA" ->
            {Monthly(1, <<Num(230000), v>>) :
                v \in {Num(215000), Num(220000), Num(250000), Num(300000),
                       Num(300001), Num(0)}}
      [] code = "RSAFS" ->
            {YoYSeries(<<Num(3), v>>) :
                v \in {Fin(501, 100), Num(5), Num(2), Fin(199, 100), Num(0),
                       Fin(-12, 10)}}
            \cup {YoYSeries(<<Num(3)>>), YoYSeries(<<Num(-2)>>)}
      [] code = "PCE" -> {YoYSeries(<<Num(4)>>)}
      [] code = "UMCSENT" ->
            {Monthly(13, <<Num(70), v>>) : v \in {Num(81), Num(80), Num(60), Num(55)}}
            \cup {Monthly(12, <<Num(70), Num(81)>>)}
      [] code = "GDPC1" ->
            {YoYSeries(<<Num(1), v>>) :
                v \in {Fin(251, 100), Fin(25, 10), Num(1), Fin(99, 100), Fin(1, 100),
                       Num(0), Fin(-5, 10)}}
            \cup {YoYSeries(<<Num(2)>>)}
      [] code = "INDPRO" -> {YoYSeries(<<Num(1), v>>) : v \in {Fin(-1, 10), Num(0), Num(1)}}
      [] code = "DGORDER" -> {YoYSeries(<<Num(2)>>)}
      [] code = "CPIAUCSL" ->
            {YoYSeries(pv) :
                pv \in {<<Num(3), Fin(36, 10)>>, <<Fin(36, 10), Fin(35, 10)>>,
                        <<Num(3), Fin(251, 100)>>, <<Num(3), Fin(25, 10)>>,
                        <<Fin(25, 10), Fin(24, 10)>>, <<Fin(36, 10)>>, <<Num(-1)>>}}
      [] code = "PCEPILFE" ->
            {YoYSeries(<<Num(3), v>>) : v \in {Fin(31, 10), Num(3), Num(2)}}
            \cup {YoYSeries(<<Num(3)>>)}
      [] code = "PPIFIS" ->
            {YoYSeries(<<Num(3), v>>) : v \in {Num(4), Num(3), Fin(25, 10)}}
            \cup {YoYSeries(<<Num(3)>>)}

ReportAnswers(code) == {Failure} \cup {Ok(obs) : obs \in ReportHistories(code)}

InitReport ==
    /\ StartState
    /\ \E c \in Categories :
          LET items == ItemsOf(c)
          IN \E r1 \in ReportAnswers(items[1].code),
                r2 \in ReportAnswers(items[2].code),
                r3 \in ReportAnswers(items[3].code) :
                /\ fred = [code \in Codes |->
                              IF code = items[1].code THEN r1
                              ELSE IF code = items[2].code THEN r2
                              ELSE IF code = items[3].code THEN r3
                              ELSE Failure]
                /\ api_key \in (IF \A code \in Codes : ~fred[code].ok
                                THEN BOOLEAN ELSE {TRUE})
    /\ selected_cat = "Employment"
    /\ z_score_window = DefaultWindow

SpecReport == InitReport /\ [][Next]_vars

(***************************************************************************)
(* SpecMetrics: one indicator answers with a step history (value a before  *)
(* month k, b from month k on, at most one month without an observation),  *)
(* the other retrievals fail; the window is any of MinWindow..MaxWindow.   *)
(***************************************************************************)
StepSeries(n, a, b, k, gap) ==
    [i \in 1..(IF gap = 0 \/ gap >= n THEN n ELSE n - 1) |->
        LET month == IF gap # 0 /\ i >= gap THEN i + 1 ELSE i
        IN [m |-> month, v |-> Num(IF month < k THEN a ELSE b)]]

Lengths == {0, 6, 12, 13, 24} \cup (25..MaxMonths)
StepValues == {<<0, 1>>, <<1, 0>>, <<1, 1>>, <<1, 2>>, <<2, 1>>}

StepHistories ==
    UNION {{StepSeries(n, ab[1], ab[2], k, gap) :
                ab \in StepValues, k \in {2, 13, 14, n}, gap \in {0, 2, 23}} :
           n \in Lengths \ {0}}
    \cup {<<>>}

InitMetrics ==
    /\ StartState
    /\ \E focus \in Codes, obs \in StepHistories :
          /\ fred = [code \in Codes |-> IF code = focus THEN Ok(obs) ELSE Failure]
          /\ api_key \in (IF obs = <<>> THEN BOOLEAN ELSE {TRUE})
    /\ selected_cat = "Employment"
    /\ z_score_window \in MinWindow..MaxWindow

SpecMetrics == InitMetrics /\ [][Next]_vars

(***************************************************************************)
(* Properties                                                              *)
(***************************************************************************)
Reported == pc \in {"reported", "done"}
Calculated == pc = "calculated"

\* the valid (non-missing) Market values of a member, oldest first
ValidMarket(name) ==
    IF HasColumn(quant_df, <<name, "Market">>)
    THEN dropna(quant_df.data[<<name, "Market">>])
    ELSE <<>>

Latest(name) == ValidMarket(name)[Len(ValidMarket(name))]
Previous(name) == ValidMarket(name)[Len(ValidMarket(name)) - 1]

SentencesAbout(code) == {i \in DOMAIN smart_report : smart_report[i].about = code}
TheSentence(code) == smart_report[CHOOSE i \in SentencesAbout(code) : TRUE]

\* C1: a member indicator with no valid Market value gets no sentence; the
\* header is still emitted; with no valid member value at all the report has
\* no indicator sentence.
C1_MissingIndicatorsSkipped ==
    Reported =>
        LET items == ItemsOf(selected_cat)
        IN /\ smart_report[1].about = "header"
           /\ \A i \in 1..Len(items) :
                 ValidMarket(items[i].name) = <<>> => SentencesAbout(items[i].code) = {}
           /\ (\A i \in 1..Len(items) : ValidMarket(items[i].name) = <<>>)
                 => \A j \in DOMAIN smart_report : smart_report[j].about \notin Codes

\* C2: the Consumption report labels the latest valid Market value v of
\* Retail Sales: v > 5 strong, 2 <= v <= 5 moderate, 0 <= v < 2 weak,
\* otherwise contraction.
C2_RetailClassified ==
    (Reported /\ selected_cat = "Consumption" /\ ValidMarket("Retail Sales") # <<>>) =>
        LET v == Latest("Retail Sales")
            label == TheSentence("RSAFS").label
        IN /\ Gt(v, Num(5)) => label = "strong"
           /\ (Ge(v, Num(2)) /\ Le(v, Num(5))) => label = "moderate"
           /\ (Ge(v, Num(0)) /\ Lt(v, Num(2))) => label = "weak"
           /\ Lt(v, Num(0)) => label = "contraction"

\* C3: wherever the window of z_score_window Momentum values ending at t is
\* full and its standard deviation is not 0, Z_t is
\* (Momentum_t - rolling mean_t) / rolling std_t.
C3_ZScoreFormula ==
    Calculated =>
        \A c \in Range(raw_df.columns) :
            LET momentum == quant_df.data[<<c, "Momentum">>]
                z == quant_df.data[<<c, "Z">>]
                w == z_score_window
            IN \A t \in 1..Len(momentum) :
                  (WindowFull(momentum, t, w) /\ WindowVar(momentum, t, w) # Num(0)) =>
                      z[t] = DivByStd(Sub(momentum[t],
                                          Div(SumFrom(momentum, t - w + 1, t), Num(w))),
                                      Sqrt(WindowVar(momentum, t, w)))

\* C4: the current percentile rank lies in [0, 100], is 0 when the latest
\* observation is the minimum of the series and 100 when it exceeds every
\* prior observation.
C4_PercentileRank ==
    pc = "done" =>
        \A i \in 1..Len(radar_indicators) :
            radar_indicators[i].label \in DOMAIN radar_data =>
                LET series == dropna(quant_df.data[<<radar_indicators[i].col_name, "Raw">>])
                    n == Len(series)
                    rank == radar_data[radar_indicators[i].label][1]
                IN /\ Ge(rank, Num(0)) /\ Le(rank, Num(100))
                   /\ (\A j \in 1..n : Le(series[n], series[j])) => rank = Num(0)
                   /\ (n > 1 /\ \A j \in 1..(n - 1) : Gt(series[n], series[j]))
                         => rank = Num(100)

\* C5: a 12-month percent change taken where the value 12 periods earlier
\* is exactly 0 is the "no value" marker.
C5_ZeroPriorIsNoValue ==
    Calculated =>
        \A c \in Range(raw_df.columns) :
            LET code == NAME_TO_CODE(c)
                s == raw_df.data[c]
                filled == ffill(s)
            IN \A t \in 13..Len(s) :
                  /\ (code \notin LevelCodes /\ filled[t - 12] = Num(0)) =>
                        /\ IsNaN(quant_df.data[<<c, "Momentum">>][t])
                        /\ IsNaN(quant_df.data[<<c, "Raw">>][t])
                  /\ (code \notin LevelCodes \cup {"PAYEMS"} /\ s[t - 12] = Num(0)) =>
                        IsNaN(quant_df.data[<<c, "Market">>][t])

C7_UnemploymentTrendAndLabel ==
    (Reported /\ selected_cat = "Employment"
        /\ Len(ValidMarket("Unemployment Rate")) >= 2) =>
        LET u == Latest("Unemployment Rate")
            p == Previous("Unemployment Rate")
            s == TheSentence("UNRATE")
        IN /\ Cardinality(SentencesAbout("UNRATE")) = 1
           /\ (s.trend = "rising") = Gt(u, p)
           /\ (s.trend = "falling") = ~Gt(u, p)
           /\ Ge(u, Fin(45, 10)) => s.label = "warning"
           /\ (Gt(u, Num(4)) /\ Lt(u, Fin(45, 10))) => s.label = "threshold-breached"
           /\ Le(u, Num(4)) => s.label = "full-employment"

\* the series (4.2, 4.3) has been reported: rising, threshold-breached
C7_Witness ==
    /\ Reported /\ selected_cat = "Employment"
    /\ ValidMarket("Unemployment Rate") = <<Fin(42, 10), Fin(43, 10)>>
    /\ TheSentence("UNRATE").trend = "rising"
    /\ TheSentence("UNRATE").label = "threshold-breached"

\* C8: the Momentum of the unemployment rate and of initial claims is the
\* negation of the transform of the forward-filled column; every other
\* indicator's Momentum is the transform itself; the Raw view is never negated.
C8_InversePolarity ==
    Calculated =>
        \A c \in Range(raw_df.columns) :
            LET code == NAME_TO_CODE(c)
                filled == ffill(raw_df.data[c])
                transform == IF code \in {"UNRATE", "ICSA", "UMCSENT"}
                             THEN diff(filled, 12)
                             ELSE times100(pct_change(filled, 12))
                momentum == quant_df.data[<<c, "Momentum">>]
                raw == quant_df.data[<<c, "Raw">>]
            IN \A t \in 1..Len(filled) :
                  /\ momentum[t] = (IF code \in {"UNRATE", "ICSA"}
                                    THEN Neg(transform[t]) ELSE transform[t])
                  /\ raw[t] = (IF code \in {"UNRATE", "ICSA", "UMCSENT"}
                               THEN filled[t] ELSE transform[t])

\* an inverse indicator has a defined Momentum value that is not 0
C8_Witness ==
    /\ Calculated
    /\ \E c \in Range(raw_df.columns) :
          /\ NAME_TO_CODE(c) \in {"UNRATE", "ICSA"}
          /\ \E t \in 1..Len(raw_df.index) :
                LET m == quant_df.data[<<c, "Momentum">>][t]
                IN /\ IsFin(m) /\ m.n > 0
                   /\ Lt(ffill(raw_df.data[c])[t], ffill(raw_df.data[c])[t - 12])

C10_FailuresAreSkipped ==
    pc \notin {"start", "no_key"} =>
        \A i \in 1..Len(flat_indicators) :
            LET name == flat_indicators[i].name
                answer == fred[flat_indicators[i].code]
                monthly == resample_last(answer.obs)
            IN /\ (name \in Range(warnings)) = ~answer.ok
               /\ HasColumn(raw_df, name) = answer.ok
               /\ answer.ok =>
                     \A r \in 1..Len(raw_df.index) :
                        raw_df.data[name][r] =
                            (IF raw_df.index[r] \in DOMAIN monthly
                             THEN monthly[raw_df.index[r]] ELSE NaN)
               /\ pc \in {"calculated", "selected", "crashed", "reported", "done"} =>
                     \A v \in 1..Len(Views) :
                        HasColumn(quant_df, <<name, Views[v]>>) = answer.ok

\* a retrieval failed between two that succeeded, and the metrics exist
C10_Witness ==
    /\ Calculated
    /\ fred["PAYEMS"].ok /\ ~fred["UNRATE"].ok /\ fred["ICSA"].ok
    /\ Len(warnings) = 1
    /\ HasColumn(quant_df, <<"Initial Claims", "Z">>)

\* C11 (as stated): the Inflation report labels the latest valid headline
\* value c by the first rule it matches in table order: c > 3.5 high; c in
\* 2.5..3.5, both ends included, disinflation-tail; c <= 2.5 target-reached.
\* The boundary 2.5 matches the second rule first.
C11_CpiFirstMatchInTableOrder ==
    (Reported /\ selected_cat = "Inflation"
        /\ ValidMarket("CPI (All Urban)") # <<>>) =>
        LET c == Latest("CPI (All Urban)")
        IN /\ Cardinality(SentencesAbout("CPIAUCSL")) = 1
           /\ TheSentence("CPIAUCSL").label =
                 (IF Gt(c, Fin(35, 10)) THEN "high"
                  ELSE IF Ge(c, Fin(25, 10)) THEN "disinflation-tail"
                  ELSE "target-reached")

\* C11 (amended): the Inflation report gives the latest valid headline value
\* c exactly one label: high when c > 3.5, disinflation-tail when
\* 2.5 < c <= 3.5, target-reached when c <= 2.5; the boundary 2.5 is
\* target-reached.
C11_CpiLabel ==
    (Reported /\ selected_cat = "Inflation"
        /\ ValidMarket("CPI (All Urban)") # <<>>) =>
        LET c == Latest("CPI (All Urban)")
        IN /\ Cardinality(SentencesAbout("CPIAUCSL")) = 1
           /\ TheSentence("CPIAUCSL").label =
                 (IF Gt(c, Fin(35, 10)) THEN "high"
                  ELSE IF Gt(c, Fin(25, 10)) THEN "disinflation-tail"
                  ELSE "target-reached")

\* a headline value of exactly 2.5 has been reported and labelled
\* target-reached
C11_Witness ==
    /\ Reported /\ selected_cat = "Inflation"
    /\ ValidMarket("CPI (All Urban)") # <<>>
    /\ Latest("CPI (All Urban)") = Fin(25, 10)
    /\ TheSentence("CPIAUCSL").label = "target-reached"

\* C12: the Growth report labels the latest valid real-output value g:
\* g > 2.5 above-potential; 1.0 <= g <= 2.5 trend; 0 <= g < 1.0 stall-speed;
\* otherwise contraction.  g = 0 is stall-speed, only g < 0 is contraction.
C12_GdpLabel ==
    (Reported /\ selected_cat = "Growth" /\ ValidMarket("Real GDP") # <<>>) =>
        LET g == Latest("Real GDP")
        IN /\ Cardinality(SentencesAbout("GDPC1")) = 1
           /\ TheSentence("GDPC1").label =
                 (IF Gt(g, Fin(25, 10)) THEN "above-potential"
                  ELSE IF Ge(g, Num(1)) THEN "trend"
                  ELSE IF Ge(g, Num(0)) THEN "stall-speed"
                  ELSE "contraction")

\* C13: the zero-variance fallback looks at the rolling standard deviation
\* of the most recent window only.  If it is exactly 0, the Z series is 0 at
\* every point, the first W-1 points and the points whose own window has a
\* nonzero deviation included.  Otherwise no point is replaced: Z is
\* (Momentum - rolling mean) / rolling std wherever the window is full, which
\* is undefined (0/0) where an earlier window has deviation 0, and undefined
\* where the window is not full.
C13_ZeroVarianceFallback ==
    Calculated =>
        \A c \in Range(raw_df.columns) :
            LET momentum == quant_df.data[<<c, "Momentum">>]
                z == quant_df.data[<<c, "Z">>]
                w == z_score_window
                n == Len(momentum)
                lastIsZero == WindowFull(momentum, n, w)
                                 /\ WindowVar(momentum, n, w) = Num(0)
            IN /\ lastIsZero => \A t \in 1..n : z[t] = Num(0)
               /\ ~lastIsZero =>
                     \A t \in 1..n :
                        /\ ~WindowFull(momentum, t, w) => IsNaN(z[t])
                        /\ (WindowFull(momentum, t, w)
                              /\ WindowVar(momentum, t, w) = Num(0)) => IsNaN(z[t])
                        /\ WindowFull(momentum, t, w) =>
                              z[t] = DivByStd(
                                        Sub(momentum[t],
                                            Div(SumFrom(momentum, t - w + 1, t), Num(w))),
                                        Sqrt(WindowVar(momentum, t, w)))

\* the most recent window has deviation 0, an earlier full window has not,
\* and the Z series is 0 there and at the first point
C13_Witness ==
    /\ Calculated
    /\ \E c \in Range(raw_df.columns) :
          LET momentum == quant_df.data[<<c, "Momentum">>]
              z == quant_df.data[<<c, "Z">>]
              w == z_score_window
              n == Len(momentum)
          IN /\ WindowFull(momentum, n, w) /\ WindowVar(momentum, n, w) = Num(0)
             /\ z[1] = Num(0)
             /\ \E t \in 1..(n - 1) :
                   /\ WindowFull(momentum, t, w)
                   /\ WindowVar(momentum, t, w) # Num(0)
                   /\ momentum[t] # Div(SumFrom(momentum, t - w + 1, t), Num(w))
                   /\ z[t] = Num(0)

\* C14: the Market view is computed from the aligned column without
\* forward-filling: a month with no observation, or whose value 1 period
\* (new-hire flow) or 12 periods (year-over-year indicators) earlier is
\* unobserved, has no Market value; the Momentum and Raw views are computed
\* from the forward-filled column.
C14_TwoFillPolicies ==
    Calculated =>
        \A c \in Range(raw_df.columns) :
            LET code == NAME_TO_CODE(c)
                s == raw_df.data[c]
                filled == ffill(s)
                market == quant_df.data[<<c, "Market">>]
                IsLevel == code \in {"UNRATE", "ICSA", "UMCSENT"}
                change == IF IsLevel THEN diff(filled, 12)
                          ELSE times100(pct_change(filled, 12))
            IN \A t \in 1..Len(s) :
                  /\ IsNaN(s[t]) => IsNaN(market[t])
                  /\ (code = "PAYEMS" /\ t > 1 /\ IsNaN(s[t - 1])) => IsNaN(market[t])
                  /\ (~IsLevel /\ code # "PAYEMS" /\ t > 12 /\ IsNaN(s[t - 12]))
                        => IsNaN(market[t])
                  /\ quant_df.data[<<c, "Raw">>][t] =
                        (IF IsLevel THEN filled[t] ELSE change[t])
                  /\ quant_df.data[<<c, "Momentum">>][t] =
                        (IF code \in {"UNRATE", "ICSA"} THEN Neg(change[t]) ELSE change[t])

\* C15: a member with exactly one valid Market value v is reported against a
\* previous value of 0: the previous value shown is 0, the change shown is
\* |v - 0|, and the trend shown is rising exactly when v > 0, falling
\* otherwise.
C15_SingleValueAgainstZero ==
    Reported =>
        \A i \in 1..Len(ItemsOf(selected_cat)) :
            LET item == ItemsOf(selected_cat)[i]
            IN (Len(ValidMarket(item.name)) = 1
                  /\ item.code \in {"PAYEMS", "UNRATE", "CPIAUCSL", "RSAFS"}) =>
                  LET v == Latest(item.name)
                      sentence == TheSentence(item.code)
                  IN /\ Cardinality(SentencesAbout(item.code)) = 1
                     /\ item.code \in {"PAYEMS", "CPIAUCSL"}
                           => sentence.shown = <<v, Num(0)>>
                     /\ item.code = "UNRATE"
                           => sentence.shown = <<v, AbsN(Sub(v, Num(0)))>>
                     /\ item.code \in {"UNRATE", "CPIAUCSL", "RSAFS"}
                           => sentence.trend = (IF Gt(v, Num(0)) THEN "rising"
                                                ELSE "falling")

====
